---- MODULE Spec2Model ----
(***************************************************************************)
(* Model of tqdm/asyncio.py: the asynchronous progress proxy              *)
(* tqdm_asyncio (construction and __anext__), and the class-level         *)
(* operations as_completed and gather built on asyncio.as_completed.      *)
(***************************************************************************)
EXTENDS Integers, Sequences, FiniteSets, TLC

\* ---------------------------------------------------------------- bounds
MaxLen == 3                 \* longest source script (calls the source answers before exhaustion)
MaxVal == 2                 \* element values are 1..MaxVal
ExtraCalls == 2             \* produce-next calls made beyond the script's length
MaxCalls == MaxLen + ExtraCalls
MaxOps == 3                 \* most input operations of as_completed / gather
NTasks == 2                 \* tasks that may call __anext__ on the same proxy
MaxLenTasks == 2            \* longest source script when several tasks and send are at work
MaxSends == 1               \* send calls made on a proxy

Vals == 1..MaxVal
ErrKinds == {"ValueError", "KeyboardInterrupt"}
Tasks == 1..NTasks

VARIABLES
    iterable,            \* the wrapped source: capabilities and the script of its answers
    iterable_awaitable,  \* self.iterable_awaitable
    iterable_next,       \* which single-step advance is bound: "anext", "next", "iter", "unbound"
    pos,                 \* number of calls made to the bound advance so far
    pc,                  \* per task: "idle" or "awaiting" (suspended at line 44)
    outcomes,            \* what each finished __anext__ step gave its caller, in order
    events,              \* display side effects in order: "update" / "close"
    send_log,            \* each send call on the proxy: its argument and what it gave its caller
    received             \* the arguments the source's own send was called with

varsP == <<iterable, iterable_awaitable, iterable_next, pos, pc, outcomes, events,
           send_log, received>>

VARIABLES
    caller,              \* "gather": gather drives as_completed; "direct": a caller loops over as_completed
    fs,                  \* the input operations: what each one resolves to or raises
    timeout,             \* whether a timeout was passed
    settled,             \* operations that have finished (1-based positions)
    done_q,              \* asyncio.as_completed's queue of finished operations; 0 is the None put on timeout
    timed_out,           \* the timeout has expired
    g_pc,                \* "init", "await", "returned", "failed", "finished"
    yielded,             \* items pulled from asyncio.as_completed's iterator
    n,                   \* updates of the as_completed bar
    closes,              \* close calls on the as_completed bar
    numbered_results,    \* gather's list of (number, result) pairs
    results,             \* gather's return value
    raised,              \* the exception gather ended with
    got,                 \* direct caller: outcome of each awaited item, with the operation it came from
    total_arg,           \* the total argument of the call (NoTotal for None)
    total,               \* the total handed to the bar
    cancelled,           \* operations cancelled by gather
    late,                \* operations that finished after gather had ended
    awaited              \* per input operation: how many times it has been awaited

varsG == <<caller, fs, timeout, settled, done_q, timed_out, g_pc, yielded, n, closes,
           numbered_results, results, raised, got, total_arg, total, cancelled, late,
           awaited>>

vars == <<varsP, varsG>>

\* ------------------------------------------------------- exceptions, results
NoExc == [kind |-> "-", origin |-> "-", at |-> 0]
Exc(k, o, a) == [kind |-> k, origin |-> o, at |-> a]
Val(x) == [t |-> "val", v |-> x, exc |-> NoExc]
Raise(e) == [t |-> "raise", v |-> 0, exc |-> e]

\* ------------------------------------------------------------- the sources
Shapes == [t : {"val"}, v : Vals, k : {"-"}] \cup [t : {"raise"}, v : {0}, k : ErrKinds]

ScriptOf(f) ==
    [i \in DOMAIN f |-> IF f[i].t = "val" THEN Val(f[i].v)
                        ELSE Raise(Exc(f[i].k, "source", i))]

Scripts == UNION {{ScriptOf(f) : f \in [1..k -> Shapes]} : k \in 0..MaxLen}

Sources ==
    [given : {TRUE}, has_anext : BOOLEAN, has_next : BOOLEAN, has_send : BOOLEAN,
     script : Scripts]
    \cup [given : {FALSE}, has_anext : {FALSE}, has_next : {FALSE}, has_send : {FALSE},
          script : {<<>>}]

NoSource == [given |-> FALSE, has_anext |-> FALSE, has_next |-> FALSE, has_send |-> FALSE,
             script |-> <<>>]

BindNext_SyncFirst(it) ==
    IF ~it.given THEN "unbound"
    ELSE IF it.has_next THEN "next"
    ELSE IF it.has_anext THEN "anext"
    ELSE "iter"

\* tqdm_asyncio.__init__ : which advance is bound, and the awaitable flag
BindNext(it) ==
    IF ~it.given THEN "unbound"
    ELSE IF it.has_anext THEN "anext"
    ELSE IF it.has_next THEN "next"
    ELSE "iter"

BindAwaitable(it) == it.given /\ it.has_anext

iterable_next_call_NoneAsEmpty(it, bound, p) ==
    IF bound = "unbound" THEN Raise(Exc("StopIteration", "proxy", p))
    ELSE IF p <= Len(it.script) THEN it.script[p]
    ELSE Raise(Exc(IF bound = "anext" THEN "StopAsyncIteration" ELSE "StopIteration",
                   "source", p))

\* self.iterable_next() : the answer of the bound advance to its p-th call.
\* After the script the source signals exhaustion: StopAsyncIteration from
\* an asynchronous advance, StopIteration from a synchronous one.
iterable_next_call(it, bound, p) ==
    IF bound = "unbound" THEN Raise(Exc("AttributeError", "proxy", p))
    ELSE IF p <= Len(it.script) THEN it.script[p]
    ELSE Raise(Exc(IF bound = "anext" THEN "StopAsyncIteration" ELSE "StopIteration",
                   "source", p))

\* variants of the step used to test the properties below
AnextStep_NoReturn(out, p) ==
    IF out.t = "val"
    THEN [ev |-> <<"update">>, res |-> Val(0)]
    ELSE IF out.exc.kind = "StopIteration"
    THEN [ev |-> <<"close">>, res |-> Raise(Exc("StopAsyncIteration", "proxy", p))]
    ELSE [ev |-> <<"close">>, res |-> Raise(out.exc)]

AnextStep_NoCloseOnStop(out, p) ==
    IF out.t = "val"
    THEN [ev |-> <<"update">>, res |-> Val(out.v)]
    ELSE IF out.exc.kind = "StopIteration"
    THEN [ev |-> <<>>, res |-> Raise(Exc("StopAsyncIteration", "proxy", p))]
    ELSE [ev |-> <<"close">>, res |-> Raise(out.exc)]

AnextStep_NoCloseOnError(out, p) ==
    IF out.t = "val"
    THEN [ev |-> <<"update">>, res |-> Val(out.v)]
    ELSE IF out.exc.kind = "StopIteration"
    THEN [ev |-> <<"close">>, res |-> Raise(Exc("StopAsyncIteration", "proxy", p))]
    ELSE [ev |-> <<>>, res |-> Raise(out.exc)]

AnextStep_Wrap(out, p) ==
    IF out.t = "val"
    THEN [ev |-> <<"update">>, res |-> Val(out.v)]
    ELSE IF out.exc.kind = "StopIteration"
    THEN [ev |-> <<"close">>, res |-> Raise(Exc("StopAsyncIteration", "proxy", p))]
    ELSE [ev |-> <<"close">>, res |-> Raise(Exc("RuntimeError", "proxy", p))]

AnextStep_UpdateAlways(out, p) ==
    IF out.t = "val"
    THEN [ev |-> <<"update">>, res |-> Val(out.v)]
    ELSE IF out.exc.kind = "StopIteration"
    THEN [ev |-> <<"update", "close">>,
          res |-> Raise(Exc("StopAsyncIteration", "proxy", p))]
    ELSE [ev |-> <<"update", "close">>, res |-> Raise(out.exc)]

\* tqdm_asyncio.__anext__, lines 42-54, applied to the answer of the pull:
\* the display side effects of the step and what the step gives its caller.
AnextStep(out, p) ==
    IF out.t = "val"
    THEN [ev |-> <<"update">>, res |-> Val(out.v)]
    ELSE IF out.exc.kind = "StopIteration"
    THEN [ev |-> <<"close">>, res |-> Raise(Exc("StopAsyncIteration", "proxy", p))]
    ELSE [ev |-> <<"close">>, res |-> Raise(out.exc)]

\* ------------------------------------------------------------------- Init
InitP ==
    /\ iterable \in Sources
    /\ iterable_awaitable = BindAwaitable(iterable)
    /\ iterable_next = BindNext(iterable)
    /\ pos = 0
    /\ pc = [t \in Tasks |-> "idle"]
    /\ outcomes = <<>>
    /\ events = <<>>
    /\ send_log = <<>>
    /\ received = <<>>

\* the __anext__ steps that have started and not yet returned or raised
InProgress == {t \in Tasks : pc[t] = "awaiting"}

\* __anext__ is called up to ExtraCalls times beyond the source's length
CallBound == Len(iterable.script) + ExtraCalls

\* one whole step of __anext__ once the pull has answered
Finish(task) ==
    LET p == pos + 1
        step == AnextStep(iterable_next_call(iterable, iterable_next, p), p)
    IN /\ pos' = p
       /\ events' = events \o step.ev
       /\ outcomes' = Append(outcomes, step.res)
       /\ pc' = [pc EXCEPT ![task] = "idle"]
       /\ UNCHANGED <<iterable, iterable_awaitable, iterable_next, send_log, received>>
       /\ UNCHANGED varsG

\* __anext__ with a synchronous pull (line 46): no suspension inside the step
AnextSync(task) ==
    /\ pc[task] = "idle"
    /\ ~iterable_awaitable
    /\ Len(outcomes) + Cardinality(InProgress) < CallBound
    /\ Finish(task)

AnextAwait_Always(task) ==
    /\ pc[task] = "idle"
    /\ Len(outcomes) + Cardinality(InProgress) < CallBound
    /\ pc' = [pc EXCEPT ![task] = "awaiting"]
    /\ UNCHANGED <<iterable, iterable_awaitable, iterable_next, pos, outcomes, events,
                   send_log, received>>
    /\ UNCHANGED varsG

\* __anext__ with an asynchronous pull: line 44 up to the await
AnextAwait(task) ==
    /\ pc[task] = "idle"
    /\ iterable_awaitable
    /\ Len(outcomes) + Cardinality(InProgress) < CallBound
    /\ pc' = [pc EXCEPT ![task] = "awaiting"]
    /\ UNCHANGED <<iterable, iterable_awaitable, iterable_next, pos, outcomes, events,
                   send_log, received>>
    /\ UNCHANGED varsG

\* the awaited pull answers; the rest of the step runs without suspension
AnextResume(task) ==
    /\ pc[task] = "awaiting"
    /\ Finish(task)

\* self.iterable.send(a): a source without send (or no source) gives an
\* AttributeError; otherwise the source resumes and answers as its next call
source_send(it, p, a) ==
    IF ~it.given \/ ~it.has_send THEN Raise(Exc("AttributeError", "proxy", p))
    ELSE IF p <= Len(it.script) THEN it.script[p]
    ELSE Raise(Exc("StopIteration", "source", p))

SendStep_Instrumented(it, p, a) ==
    [arg |-> a, ev |-> <<"update">>, res |-> source_send(it, p, a)]

\* tqdm_asyncio.send, lines 56-57: the argument handed to the source, the
\* display side effects, and what the caller gets
SendStep(it, p, a) ==
    [arg |-> a, ev |-> <<>>, res |-> source_send(it, p, a)]

Send(a) ==
    /\ Len(send_log) < MaxSends
    /\ LET step == SendStep(iterable, pos + 1, a)
           accepted == iterable.given /\ iterable.has_send
       IN /\ send_log' = Append(send_log, [arg |-> a, res |-> step.res])
          /\ events' = events \o step.ev
          /\ received' = IF accepted THEN Append(received, step.arg) ELSE received
          /\ pos' = IF accepted THEN pos + 1 ELSE pos
    /\ UNCHANGED <<iterable, iterable_awaitable, iterable_next, pc, outcomes>>
    /\ UNCHANGED varsG

\* ------------------------------------------- as_completed and gather
OpErrKinds == {"ValueError"}

OpShapes == [t : {"val"}, v : Vals, k : {"-"}] \cup [t : {"raise"}, v : {0}, k : OpErrKinds]

OpsOf(f) ==
    [i \in DOMAIN f |-> IF f[i].t = "val" THEN Val(f[i].v)
                        ELSE Raise(Exc(f[i].k, "op", i))]

OpLists == UNION {{OpsOf(f) : f \in [1..k -> OpShapes]} : k \in 0..MaxOps}

TimeoutError == Exc("TimeoutError", "asyncio", 0)
TypeError == Exc("TypeError", "sorted", 0)

NoTotal == -1
TotalArgs == {NoTotal, 0, MaxOps + 1}

\* `if total is None: total = len(fs)` (lines 64-65 and 85-86)
default_total(t, ops) == IF t = NoTotal THEN Len(ops) ELSE t

numbered_awaitables_SharedInput(ops) ==
    [i \in 1..Len(ops) |-> [number |-> i - 1, awaitable |-> 1]]

numbered_awaitables_SameNumber(ops) ==
    [i \in 1..Len(ops) |-> [number |-> 0, awaitable |-> i]]

\* line 88: one wrapper per position of fs, carrying idx and awaiting fs[idx]
numbered_awaitables(ops) ==
    [i \in 1..Len(ops) |-> [number |-> i - 1, awaitable |-> i]]

gather_cancels_Siblings(pending) == pending

\* the operations gather cancels when it ends in failure: lines 83-101
\* contain no cancel call
gather_cancels(pending) == {}

wrap_awaitable_NoNumber(number, out) ==
    IF out.t = "val" THEN [t |-> "val", v |-> <<0, out.v>>, exc |-> NoExc]
    ELSE out

wrap_awaitable_Swallow(number, out) ==
    [t |-> "val", v |-> <<number, out.v>>, exc |-> NoExc]

\* gather.wrap_awaitable: `return number, await awaitable`
wrap_awaitable(number, out) ==
    IF out.t = "val" THEN [t |-> "val", v |-> <<number, out.v>>, exc |-> NoExc]
    ELSE out

\* a result value of a type without order: `<` between it and a different
\* value raises TypeError
Comparable(x, y) == x # MaxVal /\ y # MaxVal

\* order of Python tuples: decided by the first component that differs
TupleLess(a, b) == IF a[1] # b[1] THEN a[1] < b[1] ELSE a[2] < b[2]

\* comparing two tuples raises when the first component that differs is a
\* pair of values without order
CompareRaises(a, b) == a[1] = b[1] /\ a[2] # b[2] /\ ~Comparable(a[2], b[2])

RECURSIVE Insert(_, _)
Insert(x, s) ==
    IF s = <<>> THEN <<x>>
    ELSE IF TupleLess(x, s[1]) THEN <<x>> \o s
    ELSE <<s[1]>> \o Insert(x, Tail(s))

RECURSIVE SortedFrom(_, _)
SortedFrom(acc, s) == IF s = <<>> THEN acc ELSE SortedFrom(Insert(s[1], acc), Tail(s))

RECURSIVE InsertRaises(_, _)
InsertRaises(x, s) ==
    IF s = <<>> THEN FALSE
    ELSE CompareRaises(x, s[1]) \/ (~TupleLess(x, s[1]) /\ InsertRaises(x, Tail(s)))

RECURSIVE SortRaisesFrom(_, _)
SortRaisesFrom(acc, s) ==
    IF s = <<>> THEN FALSE
    ELSE InsertRaises(s[1], acc) \/ SortRaisesFrom(Insert(s[1], acc), Tail(s))

\* sorted(numbered_results) raises TypeError
sorted_raises(s) == SortRaisesFrom(<<>>, s)

sorted_Unsorted(s) == s

\* sorted(numbered_results)
sorted(s) == SortedFrom(<<>>, s)

\* line 100: results = [result_tuple[1] for result_tuple in sorted(numbered_results)]
ProjectResults(pairs) == [i \in DOMAIN sorted(pairs) |-> sorted(pairs)[i][2]]

AsCompletedHasNext_OffByOne(y, count) == y + 1 < count

\* asyncio.as_completed(fs): its iterator hands out one awaitable per input
AsCompletedHasNext(y, count) == y < count

\* asyncio.as_completed's _wait_for_one, once the queue is not empty: the
\* awaited item gives the outcome of the operation at the head of the queue,
\* or raises TimeoutError for a None
WaitForOne(head, ops) == IF head = 0 THEN Raise(TimeoutError) ELSE ops[head]

\* one pull of the bar wrapped around asyncio.as_completed's iterator: an
\* update for an item, a close at the end of the iterator
BarPull(hasItem) == IF hasItem THEN [dn |-> 1, dclose |-> 0] ELSE [dn |-> 0, dclose |-> 1]

IdleP ==
    /\ iterable = NoSource
    /\ iterable_awaitable = FALSE
    /\ iterable_next = "unbound"
    /\ pos = 0
    /\ pc = [t \in Tasks |-> "idle"]
    /\ outcomes = <<>>
    /\ events = <<>>
    /\ send_log = <<>>
    /\ received = <<>>

IdleG ==
    /\ caller = "gather"
    /\ fs = <<>>
    /\ timeout = FALSE
    /\ settled = {}
    /\ done_q = <<>>
    /\ timed_out = FALSE
    /\ g_pc = "init"
    /\ yielded = 0
    /\ n = 0
    /\ closes = 0
    /\ numbered_results = <<>>
    /\ results = <<>>
    /\ raised = NoExc
    /\ got = <<>>
    /\ total_arg = NoTotal
    /\ total = NoTotal
    /\ cancelled = {}
    /\ late = {}
    /\ awaited = <<>>

\* a call of gather or as_completed whose total argument is one of totals
InitCall(totals) ==
    /\ caller \in {"gather", "direct"}
    /\ fs \in OpLists
    /\ timeout \in BOOLEAN
    /\ settled = {}
    /\ done_q = <<>>
    /\ timed_out = FALSE
    /\ g_pc = "init"
    /\ yielded = 0
    /\ n = 0
    /\ closes = 0
    /\ numbered_results = <<>>
    /\ results = <<>>
    /\ raised = NoExc
    /\ got = <<>>
    /\ total_arg \in totals
    /\ total = NoTotal
    /\ cancelled = {}
    /\ late = {}
    /\ awaited = [i \in DOMAIN fs |-> 0]

InitG == InitCall({NoTotal})

\* the operations as_completed was given: gather passes the numbered wrappers
Ops == IF caller = "gather"
       THEN [i \in DOMAIN numbered_awaitables(fs) |->
                wrap_awaitable(numbered_awaitables(fs)[i].number,
                               fs[numbered_awaitables(fs)[i].awaitable])]
       ELSE fs

\* the input operation awaited when operation i of as_completed runs
AwaitedBy(i) == IF caller = "gather" THEN numbered_awaitables(fs)[i].awaitable ELSE i

PullItem_Unwrapped ==
    /\ yielded' = IF AsCompletedHasNext(yielded, Len(fs)) THEN yielded + 1 ELSE yielded
    /\ UNCHANGED <<n, closes>>

PullItem_UpdateAlways ==
    /\ yielded' = IF AsCompletedHasNext(yielded, Len(fs)) THEN yielded + 1 ELSE yielded
    /\ n' = n + 1
    /\ closes' = closes + BarPull(AsCompletedHasNext(yielded, Len(fs))).dclose

PullItem_TotalBound ==
    LET has == AsCompletedHasNext(yielded, default_total(total_arg, fs))
        bar == BarPull(has)
    IN /\ yielded' = IF has THEN yielded + 1 ELSE yielded
       /\ n' = n + bar.dn
       /\ closes' = closes + bar.dclose

\* next(...) on the as_completed generator (line 66), run up to the point
\* where the caller holds the next item or the generator has ended
PullItem ==
    LET has == AsCompletedHasNext(yielded, Len(fs))
        bar == BarPull(has)
    IN /\ yielded' = IF has THEN yielded + 1 ELSE yielded
       /\ n' = n + bar.dn
       /\ closes' = closes + bar.dclose

\* gather after a pull: await the next item (line 91), or, at the end of
\* the generator, sort, project and return (lines 100-101)
GatherContinue(pairs) ==
    /\ PullItem
    /\ numbered_results' = pairs
    /\ IF AsCompletedHasNext(yielded, Len(fs))
       THEN g_pc' = "await" /\ UNCHANGED <<results, raised>>
       ELSE IF sorted_raises(pairs)
       THEN g_pc' = "failed" /\ raised' = TypeError /\ UNCHANGED results
       ELSE g_pc' = "returned" /\ results' = ProjectResults(pairs) /\ UNCHANGED raised

\* gather, lines 83-91, up to its first suspension
GatherStart ==
    /\ caller = "gather"
    /\ g_pc = "init"
    /\ total' = default_total(total_arg, fs)
    /\ GatherContinue(<<>>)
    /\ UNCHANGED <<caller, fs, timeout, settled, done_q, timed_out, got, total_arg,
                   cancelled, late, awaited>>
    /\ UNCHANGED varsP

\* gather resumed by the awaited item (line 91): the item raises, which ends
\* gather, or its pair is collected and the comprehension pulls again
GatherResume ==
    /\ caller = "gather"
    /\ g_pc = "await"
    /\ done_q # <<>>
    /\ LET out == WaitForOne(done_q[1], Ops)
       IN IF out.t = "raise"
          THEN /\ g_pc' = "failed"
               /\ raised' = out.exc
               /\ cancelled' = cancelled \cup gather_cancels(DOMAIN fs \ settled)
               /\ UNCHANGED <<yielded, n, closes, numbered_results, results>>
          ELSE /\ GatherContinue(Append(numbered_results, out.v))
               /\ UNCHANGED cancelled
    /\ done_q' = Tail(done_q)
    /\ UNCHANGED <<caller, fs, timeout, settled, timed_out, got, total_arg, total,
                   late, awaited>>
    /\ UNCHANGED varsP

\* a caller's own loop `for f in tqdm.as_completed(fs): ... await f`
ConsumerContinue ==
    /\ PullItem
    /\ g_pc' = IF AsCompletedHasNext(yielded, Len(fs)) THEN "await" ELSE "finished"

ConsumerStart ==
    /\ caller = "direct"
    /\ g_pc = "init"
    /\ total' = default_total(total_arg, fs)
    /\ ConsumerContinue
    /\ UNCHANGED <<caller, fs, timeout, settled, done_q, timed_out,
                   numbered_results, results, raised, got, total_arg, cancelled, late,
                   awaited>>
    /\ UNCHANGED varsP

ConsumerResume ==
    /\ caller = "direct"
    /\ g_pc = "await"
    /\ done_q # <<>>
    /\ got' = Append(got, [op |-> done_q[1], out |-> WaitForOne(done_q[1], Ops)])
    /\ done_q' = Tail(done_q)
    /\ ConsumerContinue
    /\ UNCHANGED <<caller, fs, timeout, settled, timed_out,
                   numbered_results, results, raised, total_arg, total, cancelled, late,
                   awaited>>
    /\ UNCHANGED varsP

\* operation i finishes, having awaited its input; asyncio.as_completed's
\* done callback queues it unless the timeout has already removed the
\* callback; a cancelled operation never finishes
Complete(i) ==
    /\ g_pc # "init"
    /\ i \in DOMAIN fs
    /\ i \notin settled
    /\ i \notin cancelled
    /\ settled' = settled \cup {i}
    /\ awaited' = [awaited EXCEPT ![AwaitedBy(i)] = @ + 1]
    /\ late' = IF g_pc = "failed" THEN late \cup {i} ELSE late
    /\ done_q' = IF timed_out THEN done_q ELSE Append(done_q, i)
    /\ UNCHANGED <<caller, fs, timeout, timed_out, g_pc, yielded, n, closes,
                   numbered_results, results, raised, got, total_arg, total, cancelled>>
    /\ UNCHANGED varsP

\* asyncio.as_completed's _on_timeout: a None for every unfinished operation
Timeout ==
    /\ timeout
    /\ ~timed_out
    /\ g_pc # "init"
    /\ settled # DOMAIN fs
    /\ timed_out' = TRUE
    /\ done_q' = done_q \o [j \in 1..(Len(fs) - Cardinality(settled)) |-> 0]
    /\ UNCHANGED <<caller, fs, timeout, settled, g_pc, yielded, n, closes,
                   numbered_results, results, raised, got, total_arg, total, cancelled,
                   late, awaited>>
    /\ UNCHANGED varsP

\* the arguments send is called with
SendArgs == {1, MaxVal}

\* one task drives the proxy through __anext__ only
NextP == AnextSync(1) \/ AnextAwait(1) \/ AnextResume(1)

\* any task may call __anext__, and send may be called
NextProxy ==
    \/ \E t \in Tasks : AnextSync(t)
    \/ \E t \in Tasks : AnextAwait(t)
    \/ \E t \in Tasks : AnextResume(t)
    \/ \E a \in SendArgs : Send(a)

NextG ==
    \/ GatherStart
    \/ GatherResume
    \/ ConsumerStart
    \/ ConsumerResume
    \/ \E i \in 1..MaxOps : Complete(i)
    \/ Timeout

InitIter == InitP /\ IdleG

InitGather == InitG /\ IdleP

SpecIter == InitIter /\ [][NextP]_vars

InitProxy == InitIter /\ Len(iterable.script) <= MaxLenTasks

SpecProxy == InitProxy /\ [][NextProxy]_vars

SpecGather == InitGather /\ [][NextG]_vars

\* calls with and without an explicit total
InitGatherTotal == InitCall(TotalArgs) /\ IdleP

SpecGatherTotal == InitGatherTotal /\ [][NextG]_vars

\* the event loop runs every task that is ready, and every operation that
\* was started finishes
FairSpecGather ==
    /\ SpecGather
    /\ WF_vars(GatherStart)
    /\ WF_vars(GatherResume)
    /\ WF_vars(ConsumerStart)
    /\ WF_vars(ConsumerResume)
    /\ \A i \in 1..MaxOps : WF_vars(Complete(i))

\* ------------------------------------------------- observations of a run
RECURSIVE CountOf(_, _)
CountOf(x, s) == IF s = <<>> THEN 0
                 ELSE (IF s[1] = x THEN 1 ELSE 0) + CountOf(x, Tail(s))

RECURSIVE ValuesOf(_)
ValuesOf(s) == IF s = <<>> THEN <<>>
               ELSE IF s[1].t = "val" THEN <<s[1].v>> \o ValuesOf(Tail(s))
               ELSE ValuesOf(Tail(s))

Updates == CountOf("update", events)
Closes == CountOf("close", events)
Delivered == ValuesOf(outcomes)                 \* elements the caller received
Terminals == Len(outcomes) - Len(Delivered)     \* steps that ended in a raise
LastOutcome == outcomes[Len(outcomes)]

\* a finite source: every call before exhaustion answers with an element
Finite(it) == it.given /\ \A i \in DOMAIN it.script : it.script[i].t = "val"
SourceValues(it) == [i \in DOMAIN it.script |-> it.script[i].v]
UpdatesThenClose(k) == [i \in 1..(k + 1) |-> IF i <= k THEN "update" ELSE "close"]

\* the source fails (not exhaustion) at 0-indexed position k, after k elements
FailsAt(it, k) ==
    /\ it.given
    /\ k + 1 \in DOMAIN it.script
    /\ it.script[k + 1].t = "raise"
    /\ \A i \in 1..k : it.script[i].t = "val"

\* ------------------------------------------------------------ the claims

\* C1: for a finite source of length L of any kind, the elements returned by
\* __anext__ are at every moment a prefix of the source's elements, every
\* step before the end returns one, and once the end is signalled they are
\* exactly the L source elements in source order.
C1_ElementsInSourceOrder ==
    Finite(iterable) =>
        /\ Len(Delivered) <= Len(iterable.script)
        /\ Delivered = SubSeq(SourceValues(iterable), 1, Len(Delivered))
        /\ (Terminals = 0 => Len(Delivered) = Len(outcomes))
        /\ (Terminals >= 1 => Delivered = SourceValues(iterable))

C1_Witness ==
    /\ Finite(iterable)
    /\ Len(iterable.script) >= 2
    /\ iterable.script[1].v # iterable.script[2].v
    /\ Terminals = 1
    /\ Delivered = SourceValues(iterable)

\* C2: for a finite source of length L, synchronous or asynchronous, no close
\* fires while elements are being returned, and the step that observes the
\* exhaustion is step L+1: it leaves the display log as L updates followed by
\* one close and raises StopAsyncIteration instead of returning an element.
C2_UpdatesThenOneClose ==
    Finite(iterable) =>
        /\ (Terminals = 0 => Closes = 0 /\ Updates = Len(outcomes))
        /\ (Terminals = 1 =>
              /\ Len(outcomes) = Len(iterable.script) + 1
              /\ events = UpdatesThenClose(Len(iterable.script))
              /\ LastOutcome.t = "raise"
              /\ LastOutcome.exc.kind = "StopAsyncIteration")

C2_Witness ==
    /\ Finite(iterable)
    /\ iterable_next = "next"
    /\ Len(iterable.script) >= 2
    /\ Terminals = 1
    /\ events = UpdatesThenClose(Len(iterable.script))

C4_FailureAtK ==
    /\ \A k \in 0..MaxLen :
          (FailsAt(iterable, k) /\ Len(outcomes) = k + 1) =>
              /\ Delivered = SubSeq(SourceValues(iterable), 1, k)
              /\ events = UpdatesThenClose(k)
              /\ LastOutcome = iterable.script[k + 1]
    /\ \A j \in 1..Len(outcomes) :
          (j \in DOMAIN iterable.script /\ iterable.script[j].t = "raise") =>
              outcomes[j] = iterable.script[j]
    /\ Updates = Len(Delivered)

C4_Witness ==
    /\ FailsAt(iterable, 2)
    /\ Len(outcomes) = 3
    /\ LastOutcome.exc.origin = "source"
    /\ LastOutcome.exc.kind = "KeyboardInterrupt"
    /\ Closes = 1

\* ------------------------------------- observations of as_completed / gather
Count == Len(fs)
AllSucceed == \A i \in DOMAIN fs : fs[i].t = "val"
Tags == {numbered_results[j][1] : j \in DOMAIN numbered_results}
GotOps == {got[j].op : j \in DOMAIN got}

\* C5: when gather returns, the list has one entry per input and entry i is
\* the result of the i-th input operation, whatever order they finished in.
C5_GatherInputOrder ==
    (caller = "gather" /\ g_pc = "returned") =>
        /\ Len(results) = Count
        /\ \A i \in DOMAIN fs : fs[i].t = "val" /\ results[i] = fs[i].v

C5_Witness ==
    /\ caller = "gather"
    /\ g_pc = "returned"
    /\ Count = 3
    /\ numbered_results[1][1] = 2
    /\ numbered_results[2][1] = 0
    /\ fs[1].v # fs[3].v
    /\ results = <<fs[1].v, fs[2].v, fs[3].v>>

\* C6: every item pulled from as_completed fires one update, never more than
\* N items are pulled, and as long as the timeout has not expired the awaited
\* items stand for pairwise distinct inputs; when the iteration ends without
\* a timeout expiry exactly N items were pulled, N updates fired and the
\* items stood for all N inputs, each giving that input's own outcome.
C6_AsCompletedBijection ==
    /\ yielded <= Count
    /\ n = yielded
    /\ ~timed_out =>
          /\ Cardinality(GotOps) = Len(got)
          /\ Cardinality(Tags) = Len(numbered_results)
          /\ \A j \in DOMAIN got : got[j].op \in DOMAIN fs /\ got[j].out = fs[got[j].op]
    /\ (~timed_out /\ g_pc = "finished") =>
          /\ yielded = Count
          /\ Len(got) = Count
          /\ GotOps = DOMAIN fs
    /\ (~timed_out /\ g_pc = "returned") =>
          /\ yielded = Count
          /\ Len(numbered_results) = Count
          /\ Tags = {i - 1 : i \in DOMAIN fs}

C6_Witness ==
    /\ caller = "direct"
    /\ g_pc = "finished"
    /\ ~timed_out
    /\ Count = 3
    /\ n = 3
    /\ got[1].op = 3
    /\ got[2].op = 1

\* C7: gather ends in failure only with the very exception object of an input
\* operation that has finished (or with the timeout error after an expiry),
\* it returns only if every input succeeded, and unless it returns no result
\* list exists, whatever pairs had been collected.
C7_GatherFailsWithE ==
    caller = "gather" =>
        /\ g_pc = "failed" =>
              \/ raised = TimeoutError /\ timed_out
              \/ \E i \in settled : fs[i].t = "raise" /\ raised = fs[i].exc
        /\ g_pc = "returned" => AllSucceed /\ raised = NoExc
        /\ g_pc # "returned" => results = <<>>

C7_Witness ==
    /\ caller = "gather"
    /\ g_pc = "failed"
    /\ Count = 3
    /\ fs[2].t = "raise"
    /\ raised = fs[2].exc
    /\ Len(numbered_results) = 1
    /\ results = <<>>

\* C9: without a timeout, as_completed eventually has handed out all N items,
\* each standing for a different input, and gather over inputs that all
\* resolve to a result eventually returns its N results (if an input fails,
\* gather eventually ends with the failure instead).
Done ==
    \/ /\ caller = "direct"
       /\ g_pc = "finished"
       /\ yielded = Count
       /\ Len(got) = Count
       /\ GotOps = DOMAIN fs
    \/ /\ caller = "gather"
       /\ AllSucceed
       /\ g_pc = "returned"
       /\ yielded = Count
       /\ Len(results) = Count
    \/ /\ caller = "gather"
       /\ ~AllSucceed
       /\ g_pc = "failed"

C9_EventuallyAllYielded == (~timeout) ~> Done

C9_Witness ==
    /\ ~timeout
    /\ caller = "gather"
    /\ Count = 3
    /\ g_pc = "returned"
    /\ Len(results) = 3

\* C10: gather over no operations returns the empty list in its first step,
\* with no update and no exception.
C10_GatherEmpty ==
    (caller = "gather" /\ fs = <<>> /\ g_pc # "init") =>
        /\ g_pc = "returned"
        /\ results = <<>>
        /\ n = 0
        /\ yielded = 0
        /\ raised = NoExc

C10_Witness ==
    /\ caller = "gather"
    /\ fs = <<>>
    /\ g_pc = "returned"
    /\ results = <<>>
    /\ n = 0

\* --------------------------------------------- the proxy, further claims

\* the count the display shows: update() adds one
DisplayCount == Updates

\* C12: the bound advance follows the priority asynchronous advance, then
\* the source's own synchronous advance, then an iterator obtained from the
\* source, with the awaitable flag set only for the first; and no step of
\* __anext__ or send, terminal or not, changes the binding or the flag.
C12_OneStrategyBound ==
    /\ [](iterable.given =>
            /\ iterable.has_anext =>
                  iterable_next = "anext" /\ iterable_awaitable
            /\ (~iterable.has_anext /\ iterable.has_next) =>
                  iterable_next = "next" /\ ~iterable_awaitable
            /\ (~iterable.has_anext /\ ~iterable.has_next) =>
                  iterable_next = "iter" /\ ~iterable_awaitable)
    /\ [][/\ iterable_next' = iterable_next
          /\ iterable_awaitable' = iterable_awaitable]_vars

C12_Witness ==
    /\ iterable.given
    /\ iterable.has_anext
    /\ iterable.has_next
    /\ iterable_next = "anext"
    /\ Len(send_log) = 1
    /\ Terminals >= 1
    /\ Len(Delivered) >= 1

\* C13: the display count always equals the number of elements __anext__
\* has returned; it never decreases, a step that returns an element adds
\* exactly 1, a step that ends in exhaustion or failure adds 0, and for a
\* finite source it never exceeds the source's length.
C13_CountIsElementsReturned ==
    /\ [](/\ DisplayCount = Len(Delivered)
          /\ Finite(iterable) => DisplayCount <= Len(iterable.script))
    /\ [][/\ DisplayCount' >= DisplayCount
          /\ Len(outcomes') = Len(outcomes) + 1 =>
                DisplayCount' = DisplayCount
                    + (IF outcomes'[Len(outcomes')].t = "val" THEN 1 ELSE 0)
          /\ Len(outcomes') = Len(outcomes) => DisplayCount' = DisplayCount]_vars

C13_Witness ==
    /\ Finite(iterable)
    /\ Len(iterable.script) = 2
    /\ DisplayCount = 2
    /\ Terminals = 2
    /\ send_log = <<>>

\* C16: a send call hands its argument to the source's send, gives its caller
\* exactly what the source answered (element or exception), and leaves the
\* display log, hence count and close state, and the __anext__ results as
\* they were.
C16_SendPassThrough ==
    [][Len(send_log') = Len(send_log) + 1 =>
          LET call == send_log'[Len(send_log')]
          IN /\ events' = events
             /\ outcomes' = outcomes
             /\ call.res = source_send(iterable, pos + 1, call.arg)
             /\ (iterable.given /\ iterable.has_send) =>
                   received' = Append(received, call.arg)]_vars

C16_Witness ==
    /\ iterable.given
    /\ iterable.has_send
    /\ Len(send_log) = 1
    /\ send_log[1].res.t = "val"
    /\ received = <<send_log[1].arg>>
    /\ send_log[1].arg = MaxVal
    /\ Updates = 1
    /\ Closes = 0

\* C17 as stated: at most one __anext__ step of a proxy is in progress.
C17_OneStepInProgress == Cardinality(InProgress) <= 1

\* C17 amended: a step is in progress only while suspended at the await of an
\* asynchronous pull (with a synchronous pull no step is ever in progress
\* between two scheduling points), several tasks may be suspended there at
\* once, and every change of the display log is a single update or close made
\* in the same uninterrupted stretch as the pull and the return of one step.
C17_OverlapOnlyAtAwait ==
    /\ [](~iterable_awaitable => InProgress = {})
    /\ [][events' # events =>
             /\ Len(events') = Len(events) + 1
             /\ Len(outcomes') = Len(outcomes) + 1
             /\ pos' = pos + 1
             /\ Cardinality(InProgress') <= Cardinality(InProgress)]_vars

C17_Witness ==
    /\ iterable_awaitable
    /\ Cardinality(InProgress) = 2
    /\ Len(outcomes) >= 1
    /\ Len(events) >= 1

\* C20: a proxy built without a source has nothing bound and its flag is
\* false; every __anext__ step on it returns no element and makes no update,
\* it calls close and raises an AttributeError.
C20_NoSource ==
    ~iterable.given =>
        /\ iterable_next = "unbound"
        /\ ~iterable_awaitable
        /\ Delivered = <<>>
        /\ Updates = 0
        /\ Closes = Len(outcomes)
        /\ \A j \in DOMAIN outcomes :
              outcomes[j].t = "raise" /\ outcomes[j].exc.kind = "AttributeError"

C20_Witness ==
    /\ ~iterable.given
    /\ Len(outcomes) = 1
    /\ outcomes[1].exc.kind = "AttributeError"
    /\ events = <<"close">>

\* ------------------------------- as_completed and gather, further claims
Ended == g_pc \in {"finished", "returned"}
Wrappers == numbered_awaitables(fs)
SortedPairs == sorted(numbered_results)

\* C11: the total handed to the bar is the explicit total, or N when none is
\* given, and it has no part in the iteration: whatever the total, at most N
\* items are pulled, each with one update, and an iteration that ends without
\* a timeout expiry has pulled exactly N items and made exactly N updates.
C11_TotalOnlyDisplayed ==
    /\ g_pc # "init" => total = (IF total_arg = NoTotal THEN Count ELSE total_arg)
    /\ yielded <= Count
    /\ n = yielded
    /\ (~timed_out /\ Ended) => yielded = Count /\ n = Count
    /\ (~timed_out /\ g_pc = "finished") => Len(got) = Count
    /\ (~timed_out /\ g_pc = "returned") => Len(results) = Count

C11_Witness ==
    /\ caller = "direct"
    /\ total_arg = 0
    /\ total = 0
    /\ Count = 3
    /\ g_pc = "finished"
    /\ ~timed_out
    /\ yielded = 3
    /\ n = 3

\* C14: gather's list of pairs changes only by one pair appended at its end,
\* it never holds two pairs with the same index nor more pairs than
\* operations have finished, its indices are positions of inputs, and when
\* gather returns it holds exactly N pairs with the indices 0..N-1.
C14_AccumulatorGrows ==
    /\ [](caller = "gather" =>
            /\ Cardinality(Tags) = Len(numbered_results)
            /\ Len(numbered_results) <= Cardinality(settled)
            /\ Tags \subseteq {i - 1 : i \in settled}
            /\ g_pc = "returned" =>
                  /\ Len(numbered_results) = Count
                  /\ Tags = {i - 1 : i \in DOMAIN fs})
    /\ [][\/ numbered_results' = numbered_results
          \/ /\ Len(numbered_results') = Len(numbered_results) + 1
             /\ SubSeq(numbered_results', 1, Len(numbered_results)) = numbered_results]_vars

C14_Witness ==
    /\ caller = "gather"
    /\ g_pc = "returned"
    /\ Count = 3
    /\ numbered_results[1][1] = 1
    /\ numbered_results[2][1] = 2
    /\ numbered_results[3][1] = 0

\* C15: gather cancels no operation in any state, and once it has ended in
\* failure every operation that has not finished can still finish.
C15_NoCancel ==
    /\ cancelled = {}
    /\ (caller = "gather" /\ g_pc = "failed") =>
          \A i \in DOMAIN fs \ settled : ENABLED Complete(i)

C15_Witness ==
    /\ caller = "gather"
    /\ g_pc = "failed"
    /\ raised.origin = "op"
    /\ Count = 3
    /\ Cardinality(late) = 2
    /\ settled = DOMAIN fs
    /\ cancelled = {}

\* C18: gather makes one wrapper per input, wrapper i carrying number i-1
\* and awaiting input i, so the numbers are exactly 0..N-1 without repeats;
\* no input is awaited more than once, an input has been awaited exactly
\* when its wrapper has finished, all of them once gather returns, and every
\* collected pair is (number, result of the input at that position).
C18_OneWrapperPerInput ==
    caller = "gather" =>
        /\ Len(Wrappers) = Count
        /\ {Wrappers[i].number : i \in DOMAIN Wrappers} = 0..(Count - 1)
        /\ \A i \in DOMAIN Wrappers :
              Wrappers[i].number = i - 1 /\ Wrappers[i].awaitable = i
        /\ \A i \in DOMAIN fs :
              awaited[i] = (IF i \in settled THEN 1 ELSE 0)
        /\ g_pc = "returned" => \A i \in DOMAIN fs : awaited[i] = 1
        /\ \A j \in DOMAIN numbered_results :
              /\ numbered_results[j][1] + 1 \in DOMAIN fs
              /\ numbered_results[j][2] = fs[numbered_results[j][1] + 1].v

C18_Witness ==
    /\ caller = "gather"
    /\ Count = 3
    /\ g_pc = "await"
    /\ settled = {1, 3}
    /\ awaited = <<1, 0, 1>>
    /\ numbered_results = <<<<2, fs[3].v>>>>

\* C19: sorting the collected pairs never compares result values: it never
\* raises, the sorted pairs are in strictly ascending index order, and when
\* gather returns every result is at its input's position, also for inputs
\* with equal results or with results that have no order.
C19_OrderByTagAlone ==
    caller = "gather" =>
        /\ ~sorted_raises(numbered_results)
        /\ raised # TypeError
        /\ \A j \in 1..(Len(SortedPairs) - 1) : SortedPairs[j][1] < SortedPairs[j + 1][1]
        /\ g_pc = "returned" => \A i \in DOMAIN fs : results[i] = fs[i].v

C19_Witness ==
    /\ caller = "gather"
    /\ g_pc = "returned"
    /\ Count = 3
    /\ fs[1].v = fs[2].v
    /\ fs[3].v = MaxVal
    /\ ~Comparable(fs[3].v, fs[1].v)
    /\ numbered_results[1][1] = 2
    /\ numbered_results[2][1] = 1
    /\ results = <<fs[1].v, fs[2].v, fs[3].v>>
====
